---- MODULE Spec2Model ----
(***************************************************************************)
(* Model of the Census Bureau API client (src/src/census-client.ts): the   *)
(* process-wide rate gate of rateLimitedFetch, the key provider and the    *)
(* five exported query operations.                                         *)
(*                                                                         *)
(* Text that the code only concatenates (URL pieces, keys, path segments)  *)
(* is kept as a sequence of pieces, one TLA+ string per interpolated       *)
(* value.  Text that the code searches inside (titles, descriptions,       *)
(* dataset ids, search terms) is kept as a sequence of one-character       *)
(* strings so that toLowerCase, includes, join and slice are computed.     *)
(* An optional value (a field or argument that may be undefined) is a      *)
(* sequence of length 0 (undefined) or 1 (the value).                      *)
(***************************************************************************)
EXTENDS Integers, Sequences, FiniteSets, TLC

Undefined == <<>>
Some(v) == <<v>>
IsDefined(x) == Len(x) = 1

BASE_URL == "https://api.census.gov/data"
RATE_LIMIT_MS == 200
SEARCH_CAP == 25
DESC_CAP == 200
VARS_CAP == 50

(* Model bounds. *)
NProc == 2
MaxCalls == 3
TickMs == 100
MaxTime == 600
MaxRows == 3
MaxRun == 13

Procs == 1..NProc

Min(a, b) == IF a < b THEN a ELSE b
Max(a, b) == IF a > b THEN a ELSE b

(***************************************************************************)
(* JavaScript built-ins used by the client.                                *)
(***************************************************************************)

(* Array.prototype.slice / String.prototype.slice with integer arguments:  *)
(* a negative index counts from the end, both are clamped to the length.   *)
RelIndex(i, len) == IF i < 0 THEN Max(len + i, 0) ELSE Min(i, len)

JsSlice(s, start, end) ==
  LET from == RelIndex(start, Len(s))
      to == RelIndex(end, Len(s))
  IN IF from >= to THEN <<>> ELSE SubSeq(s, from + 1, to)

(* slice(start) with the end omitted. *)
JsSliceFrom(s, start) == JsSlice(s, start, Len(s))

(* String.prototype.toLowerCase over the model's alphabet. *)
LowerChar(c) ==
  CASE c = "A" -> "a"
    [] c = "B" -> "b"
    [] OTHER -> c

toLowerCase(s) == [i \in 1..Len(s) |-> LowerChar(s[i])]

(* String.prototype.includes: q occurs in s as a contiguous substring. *)
includes(s, q) ==
  \E i \in 0..(Len(s) - Len(q)) : \A j \in 1..Len(q) : s[i + j] = q[j]

(* Array.prototype.join over strings kept as character sequences. *)
RECURSIVE join(_, _)
join(parts, sep) ==
  IF Len(parts) = 0 THEN <<>>
  ELSE IF Len(parts) = 1 THEN parts[1]
  ELSE parts[1] \o <<sep>> \o join(Tail(parts), sep)

(* join(",") over pieces: the pieces interleaved with the separator. *)
RECURSIVE joinPieces(_, _)
joinPieces(parts, sep) ==
  IF Len(parts) = 0 THEN <<>>
  ELSE IF Len(parts) = 1 THEN <<parts[1]>>
  ELSE <<parts[1], sep>> \o joinPieces(Tail(parts), sep)

(* x ?? dflt *)
Coalesce(x, dflt) == IF IsDefined(x) THEN x[1] ELSE dflt

(* Truthiness of an optional string kept as one piece. *)
Truthy(x) == IsDefined(x) /\ x[1] # ""

(* Truthiness of an optional string kept as a character sequence. *)
TruthyChars(x) == IsDefined(x) /\ Len(x[1]) > 0

(* Truthiness of an optional number. *)
TruthyNum(n) == IsDefined(n) /\ n[1] # 0

(***************************************************************************)
(* Key provider.                                                           *)
(***************************************************************************)
KeyMissingLoose(env) == ~IsDefined(env)

(* getApiKey throws exactly when the variable is absent or empty. *)
KeyMissing(env) == ~Truthy(env)

ConfigError == [kind |-> "Error", message |-> <<"CENSUS_API_KEY environment variable is required">>]

(* Census API ${res.status}: ${body} *)
ApiError(status, body) == [kind |-> "Error", message |-> <<"Census API ", status, ": ", body>>]

NetworkError == [kind |-> "TypeError", message |-> <<"fetch", "failed">>]

(***************************************************************************)
(* searchDatasets                                                          *)
(***************************************************************************)
searchDatasetsUrl == <<BASE_URL, ".json">>

DatasetId(d) == IF IsDefined(d.c_dataset) THEN join(d.c_dataset[1], "/") ELSE <<>>

DatasetMatchesCaseSensitive(d, q) ==
  \/ includes(toLowerCase(Coalesce(d.title, <<>>)), q)
  \/ includes(toLowerCase(Coalesce(d.description, <<>>)), q)
  \/ includes(DatasetId(d), q)

DatasetMatches(d, q) ==
  LET title == toLowerCase(Coalesce(d.title, <<>>))
      desc == toLowerCase(Coalesce(d.description, <<>>))
      id == DatasetId(d)
  IN includes(title, q) \/ includes(desc, q) \/ includes(toLowerCase(id), q)

toDatasetInfo(d) ==
  LET vintage == Coalesce(d.c_vintage, <<>>)
      datasetPath == DatasetId(d)
  IN [title |-> Coalesce(d.title, <<>>),
      description |-> JsSlice(Coalesce(d.description, <<>>), 0, DESC_CAP),
      vintage |-> vintage,
      dataset_name |-> datasetPath,
      dataset_url |-> <<BASE_URL, "/">> \o vintage \o <<"/">> \o datasetPath]

searchDatasetsResult(query, data) ==
  LET q == toLowerCase(query)
      kept == SelectSeq(data.dataset, LAMBDA d : DatasetMatches(d, q))
      first == JsSlice(kept, 0, SEARCH_CAP)
  IN [i \in 1..Len(first) |-> toDatasetInfo(first[i])]

(***************************************************************************)
(* getVariables                                                            *)
(***************************************************************************)
getVariablesUrlAnyGroup(vintage, dataset, group) ==
  IF IsDefined(group)
  THEN <<BASE_URL, "/", vintage, "/", dataset, "/groups/", group[1], ".json">>
  ELSE <<BASE_URL, "/", vintage, "/", dataset, "/variables.json">>

getVariablesUrl(vintage, dataset, group) ==
  IF Truthy(group)
  THEN <<BASE_URL, "/", vintage, "/", dataset, "/groups/", group[1], ".json">>
  ELSE <<BASE_URL, "/", vintage, "/", dataset, "/variables.json">>

(* data.variables is the decoded mapping, in iteration order, as a         *)
(* sequence of [name, info] entries.                                       *)
toVariableInfo(e) ==
  [name |-> e.name,
   label |-> Coalesce(e.info.label, <<>>),
   concept |-> Coalesce(e.info.concept, <<>>),
   group |-> Coalesce(e.info.group, <<>>)]

VariableMatches(v, s) ==
  \/ includes(toLowerCase(v.name), s)
  \/ includes(toLowerCase(v.label), s)
  \/ includes(toLowerCase(v.concept), s)

getVariablesResult(search, data) ==
  LET vars == [i \in 1..Len(data.variables) |-> toVariableInfo(data.variables[i])]
      filtered == IF TruthyChars(search)
                  THEN SelectSeq(vars, LAMBDA v : VariableMatches(v, toLowerCase(search[1])))
                  ELSE vars
  IN JsSlice(filtered, 0, VARS_CAP)

(***************************************************************************)
(* getGeographies                                                          *)
(***************************************************************************)
getGeographiesUrl(vintage, dataset) ==
  <<BASE_URL, "/", vintage, "/", dataset, "/geography.json">>

toGeographyInfo(g) ==
  [name |-> g.name, hierarchy |-> g.geoLevelDisplay, wildcard |-> Coalesce(g.wildcard, <<>>)]

getGeographiesResult(data) == [i \in 1..Len(data.fips) |-> toGeographyInfo(data.fips[i])]

(***************************************************************************)
(* queryData                                                               *)
(***************************************************************************)
queryDataUrlInBeforeKey(params, key) ==
  <<BASE_URL, "/", params.vintage, "/", params.dataset, "?get=NAME,">>
    \o joinPieces(params.variables, ",")
    \o <<"&for=", params.geo_for>>
    \o (IF Truthy(params.geo_in) THEN <<"&in=", params.geo_in[1]>> ELSE <<>>)
    \o <<"&key=", key>>

queryDataUrl(params, key) ==
  LET vars == joinPieces(params.variables, ",")
      url == <<BASE_URL, "/", params.vintage, "/", params.dataset, "?get=NAME,">>
               \o vars \o <<"&for=", params.geo_for, "&key=", key>>
  IN IF Truthy(params.geo_in) THEN url \o <<"&in=", params.geo_in[1]>> ELSE url

queryDataResult(params, data) ==
  LET headers == IF Len(data) = 0 THEN Undefined ELSE data[1]
      rows == JsSliceFrom(data, 1)
      total == Len(rows)
  IN [headers |-> headers,
      rows |-> IF TruthyNum(params.limit) /\ params.limit[1] < Len(rows)
               THEN JsSlice(rows, 0, params.limit[1])
               ELSE rows,
      total_rows |-> total]

(***************************************************************************)
(* getPopulation                                                           *)
(***************************************************************************)
getPopulationParamsFalsy(params) ==
  [vintage |-> IF Truthy(params.vintage) THEN params.vintage[1] ELSE "2022",
   dataset |-> IF Truthy(params.dataset) THEN params.dataset[1] ELSE "acs/acs5",
   variables |-> <<"B01001_001E">>,
   geo_for |-> params.geo_for,
   geo_in |-> params.geo_in,
   limit |-> Undefined]

(* The params record getPopulation hands to queryData. *)
getPopulationParams(params) ==
  [vintage |-> Coalesce(params.vintage, "2022"),
   dataset |-> Coalesce(params.dataset, "acs/acs5"),
   variables |-> <<"B01001_001E">>,
   geo_for |-> params.geo_for,
   geo_in |-> params.geo_in,
   limit |-> Undefined]

(***************************************************************************)
(* Dispatch over the five exported operations.                             *)
(***************************************************************************)
Ops == {"searchDatasets", "getVariables", "getGeographies", "queryData", "getPopulation"}

(* The operations that call getApiKey before anything else. *)
NeedsKey(op) == op \in {"queryData", "getPopulation"}

(* The URL the operation hands to rateLimitedFetch. *)
UrlOf(op, args, key) ==
  CASE op = "searchDatasets" -> searchDatasetsUrl
    [] op = "getVariables" -> getVariablesUrl(args.vintage, args.dataset, args.group)
    [] op = "getGeographies" -> getGeographiesUrl(args.vintage, args.dataset)
    [] op = "queryData" -> queryDataUrl(args, key)
    [] op = "getPopulation" -> queryDataUrl(getPopulationParams(args), key)

(* The value the operation returns for the decoded body. *)
ResultOf(op, args, data) ==
  CASE op = "searchDatasets" -> searchDatasetsResult(args.query, data)
    [] op = "getVariables" -> getVariablesResult(args.search, data)
    [] op = "getGeographies" -> getGeographiesResult(data)
    [] op = "queryData" -> queryDataResult(args, data)
    [] op = "getPopulation" -> queryDataResult(getPopulationParams(args), data)

(***************************************************************************)
(* Inputs of the rate-gate model: one call and one decoded body per        *)
(* operation.                                                              *)
(***************************************************************************)
Row(i) == <<"row", ToString(i)>>
Table(n) == <<<<"NAME", "B01001_001E">>>> \o [i \in 1..n |-> Row(i)]

GateArgs(op) ==
  CASE op = "searchDatasets" -> [query |-> <<"A">>]
    [] op = "getVariables" ->
         [vintage |-> "2022", dataset |-> "acs/acs5", search |-> Some(<<"a">>), group |-> Undefined]
    [] op = "getGeographies" -> [vintage |-> "2022", dataset |-> "acs/acs5"]
    [] op = "queryData" ->
         [vintage |-> "2022", dataset |-> "acs/acs5", variables |-> <<"B01001_001E">>,
          geo_for |-> "state:*", geo_in |-> Undefined, limit |-> Some(1)]
    [] op = "getPopulation" ->
         [geo_for |-> "state:06", geo_in |-> Undefined, vintage |-> Undefined, dataset |-> Undefined]

GateData(op) ==
  CASE op = "searchDatasets" ->
         [dataset |-> <<[title |-> Some(<<"a", "b">>), description |-> Some(<<"b">>),
                         c_dataset |-> Some(<<<<"a">>, <<"b">>>>), c_vintage |-> Some(<<"2">>)],
                        [title |-> Some(<<"b">>), description |-> Undefined,
                         c_dataset |-> Undefined, c_vintage |-> Undefined]>>]
    [] op = "getVariables" ->
         [variables |-> <<[name |-> <<"B">>, info |-> [label |-> Some(<<"a">>), concept |-> Undefined,
                                                       group |-> Some(<<"B">>)]],
                          [name |-> <<"B", "b">>, info |-> [label |-> Undefined, concept |-> Undefined,
                                                            group |-> Undefined]]>>]
    [] op = "getGeographies" ->
         [fips |-> <<[name |-> "state", geoLevelDisplay |-> "040", wildcard |-> Some(<<"state">>)],
                     [name |-> "us", geoLevelDisplay |-> "010", wildcard |-> Undefined]>>]
    [] OTHER -> Table(2)

EnvValues == {Undefined, Some(""), Some("test-key-123")}

(***************************************************************************)
(* State.                                                                  *)
(***************************************************************************)
VARIABLES
  clock,            \* Date.now()
  lastRequestTime,  \* the module-level timestamp
  env,              \* process.env.CENSUS_API_KEY
  proc,             \* per caller: the invocation in progress
  gets,             \* times of the last two calls of fetch, oldest first
  calls,            \* invocations started so far
  pin,              \* input of a single invocation taken without the gate
  pout              \* its outcome

vars == <<clock, lastRequestTime, env, proc, gets, calls, pin, pout>>

Idle ==
  [pc |-> "idle", op |-> "", args |-> <<>>, url |-> <<>>, wake |-> 0, delayMs |-> 0,
   ok |-> FALSE, status |-> 0, body |-> <<>>,
   result |-> Undefined, err |-> Undefined, nReq |-> 0]

InFlight(p) == proc[p].pc \in {"delay", "fetch", "text", "json"}
Settled(p) == proc[p].pc \in {"resolved", "rejected"}

Init ==
  /\ clock = RATE_LIMIT_MS  \* any time at least RATE_LIMIT_MS after the epoch
  /\ lastRequestTime = 0
  /\ env \in EnvValues
  /\ proc = [p \in Procs |-> Idle]
  /\ gets = <<>>
  /\ calls = 0
  /\ pin = <<>>
  /\ pout = <<>>

(***************************************************************************)
(* rateLimitedFetch                                                        *)
(***************************************************************************)
GateDelayElapsed(now, last) ==
  IF now - last < RATE_LIMIT_MS THEN now - last ELSE 0

(* The setTimeout delay taken before the stamp; 0 when no timer is set. *)
GateDelay(now, last) ==
  LET elapsed == now - last
  IN IF elapsed < RATE_LIMIT_MS THEN RATE_LIMIT_MS - elapsed ELSE 0

Record(log, t) == IF Len(log) < 2 THEN Append(log, t) ELSE <<log[2], t>>

(* lastRequestTime = Date.now(); fetch(url) -- one synchronous stretch. *)
Issue(p, r) ==
  /\ lastRequestTime' = clock
  /\ gets' = Record(gets, clock)
  /\ proc' = [proc EXCEPT ![p] = [r EXCEPT !.pc = "fetch", !.wake = 0, !.delayMs = 0,
                                           !.nReq = @ + 1]]

(* An exported operation is invoked: it runs synchronously up to its       *)
(* first await (the timer or the fetch) or its throw.                      *)
Call(p, op) ==
  LET args == GateArgs(op)
      r == [Idle EXCEPT !.op = op, !.args = args]
  IN /\ proc[p].pc = "idle"
     /\ calls < MaxCalls
     /\ clock + RATE_LIMIT_MS <= MaxTime
     /\ calls' = calls + 1
     /\ UNCHANGED <<clock, env, pin, pout>>
     /\ IF NeedsKey(op) /\ KeyMissing(env)
        THEN /\ proc' = [proc EXCEPT ![p] = [r EXCEPT !.pc = "rejected", !.err = Some(ConfigError)]]
             /\ UNCHANGED <<lastRequestTime, gets>>
        ELSE LET u == UrlOf(op, args, IF NeedsKey(op) THEN env[1] ELSE "")
                 d == GateDelay(clock, lastRequestTime)
             IN IF d > 0
                THEN /\ proc' = [proc EXCEPT ![p] = [r EXCEPT !.pc = "delay", !.url = u,
                                                              !.wake = clock + d, !.delayMs = d]]
                     /\ UNCHANGED <<lastRequestTime, gets>>
                ELSE Issue(p, [r EXCEPT !.url = u])

(* The same, with every earlier invocation awaited to completion first. *)
SeqCall(p, op) ==
  /\ \A q \in Procs : ~InFlight(q)
  /\ Call(p, op)

WakeAfterOthers(p) ==
  /\ proc[p].pc = "delay"
  /\ clock >= proc[p].wake
  /\ \A q \in Procs : proc[q].pc # "fetch"
  /\ Issue(p, proc[p])
  /\ UNCHANGED <<clock, env, calls, pin, pout>>

(* The timer fires (no earlier than its delay) and the call stamps and fetches. *)
Wake(p) ==
  /\ proc[p].pc = "delay"
  /\ clock >= proc[p].wake
  /\ Issue(p, proc[p])
  /\ UNCHANGED <<clock, env, calls, pin, pout>>

(* The response arrives: ok with a body to decode, or a non-success status. *)
(* Nothing bounds how long this takes; it may never happen.                *)
Respond(p) ==
  /\ proc[p].pc = "fetch"
  /\ \/ proc' = [proc EXCEPT ![p].pc = "json", ![p].ok = TRUE, ![p].status = 200,
                             ![p].body = GateData(proc[p].op)]
     \/ proc' = [proc EXCEPT ![p].pc = "text", ![p].ok = FALSE, ![p].status = 404,
                             ![p].body = "error: unknown variable"]
  /\ UNCHANGED <<clock, lastRequestTime, env, gets, calls, pin, pout>>

(* fetch itself rejects (connection refused, DNS, ...). *)
FetchFail(p) ==
  /\ proc[p].pc = "fetch"
  /\ proc' = [proc EXCEPT ![p].pc = "rejected", ![p].err = Some(NetworkError)]
  /\ UNCHANGED <<clock, lastRequestTime, env, gets, calls, pin, pout>>

ReadTextRetry(p) ==
  /\ proc[p].pc = "text"
  /\ lastRequestTime' = clock
  /\ gets' = Record(gets, clock)
  /\ proc' = [proc EXCEPT ![p].pc = "fetch", ![p].nReq = @ + 1]
  /\ UNCHANGED <<clock, env, calls, pin, pout>>

(* !res.ok: the body text is read and the error is thrown. *)
ReadText(p) ==
  /\ proc[p].pc = "text"
  /\ proc' = [proc EXCEPT ![p].pc = "rejected",
                          ![p].err = Some(ApiError(proc[p].status, proc[p].body))]
  /\ UNCHANGED <<clock, lastRequestTime, env, gets, calls, pin, pout>>

(* res.json() resolves and the operation reshapes and returns. *)
ReadJson(p) ==
  /\ proc[p].pc = "json"
  /\ proc' = [proc EXCEPT ![p].pc = "resolved",
                          ![p].result = Some(ResultOf(proc[p].op, proc[p].args, proc[p].body))]
  /\ UNCHANGED <<clock, lastRequestTime, env, gets, calls, pin, pout>>

(* The caller takes the settled promise; the caller is free to call again. *)
Return(p) ==
  /\ Settled(p)
  /\ proc' = [proc EXCEPT ![p] = Idle]
  /\ UNCHANGED <<clock, lastRequestTime, env, gets, calls, pin, pout>>

(* Time passes (the clock never goes back). *)
Tick ==
  /\ clock + TickMs <= MaxTime
  /\ clock' = clock + TickMs
  /\ UNCHANGED <<lastRequestTime, env, proc, gets, calls, pin, pout>>

Step(p) ==
  \/ Wake(p)
  \/ Respond(p)
  \/ FetchFail(p)
  \/ ReadText(p)
  \/ ReadJson(p)
  \/ Return(p)

Next ==
  \/ \E p \in Procs, op \in Ops : Call(p, op)
  \/ \E p \in Procs : Step(p)
  \/ Tick

Spec == Init /\ [][Next]_vars

SeqNext ==
  \/ \E p \in Procs, op \in Ops : SeqCall(p, op)
  \/ \E p \in Procs : Step(p)
  \/ Tick

SeqSpec == Init /\ [][SeqNext]_vars

(* Time passes, due timers fire, and the read of a response that has      *)
(* arrived finishes.  Nothing is assumed of the network: a fetch may hang. *)
Fairness ==
  /\ WF_vars(Tick)
  /\ \A p \in Procs :
       /\ WF_vars(Wake(p))
       /\ WF_vars(ReadText(p))
       /\ WF_vars(ReadJson(p))

(* The gate treats every URL alike: for progress one operation without a  *)
(* key and one with a key are invoked.                                     *)
FairOps == {"getGeographies", "queryData"}

FairNext ==
  \/ \E p \in Procs, op \in FairOps : Call(p, op)
  \/ \E p \in Procs : Step(p)
  \/ Tick

FairSpec == Init /\ [][FairNext]_vars /\ Fairness

(***************************************************************************)
(* One invocation taken alone, from call to settled promise: what it       *)
(* requests and what it returns or throws for a given environment and      *)
(* response.                                                               *)
(***************************************************************************)
Handle(op, args, e, resp) ==
  IF NeedsKey(op) /\ KeyMissing(e)
  THEN [url |-> Undefined, result |-> Undefined, err |-> Some(ConfigError)]
  ELSE LET u == UrlOf(op, args, IF NeedsKey(op) THEN e[1] ELSE "")
       IN IF resp.ok
          THEN [url |-> Some(u), result |-> Some(ResultOf(op, args, resp.body)), err |-> Undefined]
          ELSE [url |-> Some(u), result |-> Undefined,
                err |-> Some(ApiError(resp.status, resp.body))]

OkResponse(data) == [ok |-> TRUE, status |-> 200, body |-> data]
NotFound == [ok |-> FALSE, status |-> 404, body |-> "error: unknown variable"]

(* Catalog entries: mixed case, missing fields, a description longer than  *)
(* the cap whose only "aa" straddles it, an id whose match needs the "/".  *)
LongDesc == [i \in 1..(DESC_CAP + 1) |-> IF i >= DESC_CAP THEN "a" ELSE "b"]

EntryPool ==
  { [title |-> Some(<<"A", "b">>), description |-> Some(<<"b">>),
     c_dataset |-> Some(<<<<"a">>, <<"b">>>>), c_vintage |-> Some(<<"2", "0", "2", "2">>)],
    [title |-> Undefined, description |-> Some(<<"B", "a">>),
     c_dataset |-> Undefined, c_vintage |-> Undefined],
    [title |-> Some(<<"b", "b">>), description |-> Some(LongDesc),
     c_dataset |-> Some(<<<<"b">>>>), c_vintage |-> Some(<<"2", "0", "2", "0">>)],
    [title |-> Some(<<"a">>), description |-> Undefined,
     c_dataset |-> Some(<<<<"A", "b">>, <<"a">>>>), c_vintage |-> Some(<<"2", "0", "1", "0">>)] }

Queries ==
  { <<>>, <<"a">>, <<"A", "B">>, <<"b", "/", "a">>, <<"a", "a">>, <<"a", "b", "a">> }

Rep(e, n) == [i \in 1..n |-> e]
RunLens == {0, 1, MaxRun}

(* Catalogs of up to three runs of equal entries, up to 3 * MaxRun long. *)
Catalogs ==
  { Rep(x1, n1) \o Rep(x2, n2) \o Rep(x3, n3) :
      <<x1, x2, x3>> \in EntryPool \X EntryPool \X EntryPool,
      <<n1, n2, n3>> \in RunLens \X RunLens \X RunLens }

OptPieces(v) == {Undefined, Some(""), Some(v)}
Limits == {Undefined} \cup {Some(n) : n \in 0..(MaxRows + 1)}
TableResponses == {OkResponse(Table(n)) : n \in 0..MaxRows} \cup {NotFound}

PureInputs(op) ==
  CASE op = "searchDatasets" ->
         { [op |-> op, args |-> [query |-> q], resp |-> OkResponse([dataset |-> c])] :
             q \in Queries, c \in Catalogs }
    [] op = "getVariables" ->
         { [op |-> op,
            args |-> [vintage |-> "2022", dataset |-> "acs/acs5", search |-> s, group |-> g],
            resp |-> r] :
             s \in {Undefined, Some(<<>>), Some(<<"A">>)}, g \in OptPieces("B01001"),
             r \in {OkResponse(GateData(op)), NotFound} }
    [] op = "getGeographies" ->
         { [op |-> op, args |-> GateArgs(op), resp |-> r] :
             r \in {OkResponse(GateData(op)), NotFound} }
    [] op = "queryData" ->
         { [op |-> op,
            args |-> [vintage |-> "2022", dataset |-> "acs/acs5", variables |-> v,
                      geo_for |-> "county:037", geo_in |-> g, limit |-> l],
            resp |-> r] :
             v \in {<<"B01001_001E">>, <<"B01001_001E", "B19013_001E">>},
             g \in OptPieces("state:06"), l \in Limits, r \in TableResponses }
    [] op = "getPopulation" ->
         { [op |-> op,
            args |-> [geo_for |-> "county:*", geo_in |-> g, vintage |-> v, dataset |-> d],
            resp |-> r] :
             g \in OptPieces("state:06"), v \in OptPieces("2020"), d \in OptPieces("dec/pl"),
             r \in TableResponses }

PureInit ==
  /\ clock = RATE_LIMIT_MS
  /\ lastRequestTime = 0
  /\ proc = [p \in Procs |-> Idle]
  /\ gets = <<>>
  /\ calls = 0
  /\ pout = Undefined
  /\ \E op \in Ops :
       /\ pin \in PureInputs(op)
       /\ env \in IF NeedsKey(op) THEN EnvValues ELSE {Undefined}

Invoke(op) ==
  /\ pout = Undefined
  /\ pin.op = op
  /\ pout' = Some(Handle(op, pin.args, env, pin.resp))
  /\ UNCHANGED <<clock, lastRequestTime, env, proc, gets, calls, pin>>

InvokeSearchDatasets == Invoke("searchDatasets")
InvokeGetVariables == Invoke("getVariables")
InvokeGetGeographies == Invoke("getGeographies")
InvokeQueryData == Invoke("queryData")
InvokeGetPopulation == Invoke("getPopulation")

PureNext ==
  \/ InvokeSearchDatasets
  \/ InvokeGetVariables
  \/ InvokeGetGeographies
  \/ InvokeQueryData
  \/ InvokeGetPopulation

PureSpec == PureInit /\ [][PureNext]_vars

(***************************************************************************)
(* Properties.                                                             *)
(***************************************************************************)

(* C1: when every operation is awaited to completion before the next is    *)
(* started, two successive stamp-and-fetch moments of rateLimitedFetch are *)
(* at least RATE_LIMIT_MS apart.  Checked under SeqSpec.                   *)
C1_SequentialSpacing ==
  Len(gets) = 2 => gets[2] - gets[1] >= RATE_LIMIT_MS

(* A second request has gone out exactly RATE_LIMIT_MS after the first,    *)
(* having been started before the interval had passed.                     *)
C1_Witness ==
  /\ Len(gets) = 2
  /\ gets[2] - gets[1] = RATE_LIMIT_MS
  /\ calls >= 2
  /\ \E p \in Procs : proc[p].pc = "fetch" /\ clock = gets[2]

(* C2: for concurrently started operations too, any two successive         *)
(* outbound GET requests are issued at least RATE_LIMIT_MS apart.          *)
C2_ConcurrentSpacing ==
  \A i \in 1..(Len(gets) - 1) : gets[i + 1] - gets[i] >= RATE_LIMIT_MS

(* C3: with CENSUS_API_KEY absent or empty, queryData and getPopulation    *)
(* reject with the credential-missing error at once: no request, no gate   *)
(* delay, and the call leaves lastRequestTime as it was.                   *)
KeyAbsentOrEmpty == env = Undefined \/ env = Some("")

C3_FailsBeforeGate ==
  \A p \in Procs :
    (proc[p].pc # "idle" /\ NeedsKey(proc[p].op) /\ KeyAbsentOrEmpty) =>
      /\ proc[p].pc = "rejected"
      /\ proc[p].err = Some(ConfigError)
      /\ proc[p].nReq = 0
      /\ proc[p].url = <<>>

C3_TimestampUntouched ==
  \A p \in Procs :
    (proc[p].pc = "idle" /\ proc'[p].pc # "idle" /\ NeedsKey(proc'[p].op) /\ KeyAbsentOrEmpty) =>
      /\ lastRequestTime' = lastRequestTime
      /\ gets' = gets

C3_NoRequestWithoutKey == [](C3_FailsBeforeGate) /\ [][C3_TimestampUntouched]_vars

(* A keyed operation has failed on a missing key after an earlier request  *)
(* had stamped the gate, and the stamp is still that request's.            *)
C3_Witness ==
  /\ KeyAbsentOrEmpty
  /\ Len(gets) >= 1
  /\ lastRequestTime = gets[Len(gets)]
  /\ lastRequestTime < clock
  /\ \E p \in Procs : proc[p].op = "queryData" /\ proc[p].err = Some(ConfigError)
  /\ \E p \in Procs : proc[p].op = "getPopulation" /\ proc[p].err = Some(ConfigError)

(* C4: queryData returns total_rows = n whatever the limit, and rows is    *)
(* the prefix of the data rows of length min(n, limit ?? n).               *)
C4_LimitPrefix ==
  (IsDefined(pout) /\ pin.op = "queryData" /\ IsDefined(pout[1].result)) =>
    LET data == pin.resp.body
        n == Len(data) - 1
        lim == pin.args.limit
        k == IF IsDefined(lim) THEN Min(n, lim[1]) ELSE n
        res == pout[1].result[1]
    IN /\ res.total_rows = n
       /\ Len(res.rows) = k
       /\ \A i \in 1..k : res.rows[i] = data[i + 1]

(* C5: searchDatasets returns the first at most SEARCH_CAP catalog entries,*)
(* in catalog order, whose title, description or slash-joined id contains  *)
(* the query without regard to case; nothing else, and an empty sequence   *)
(* when nothing matches.                                                   *)
ContainsIgnoringCase(s, q) ==
  \E i \in 0..(Len(s) - Len(q)) :
    \A j \in 1..Len(q) : LowerChar(s[i + j]) = LowerChar(q[j])

EntryContains(d, q) ==
  \/ IsDefined(d.title) /\ ContainsIgnoringCase(d.title[1], q)
  \/ IsDefined(d.description) /\ ContainsIgnoringCase(d.description[1], q)
  \/ IsDefined(d.c_dataset) /\ ContainsIgnoringCase(join(d.c_dataset[1], "/"), q)
  \/ q = <<>>

C5_SearchFirstMatches ==
  (IsDefined(pout) /\ pin.op = "searchDatasets" /\ IsDefined(pout[1].result)) =>
    LET cat == pin.resp.body.dataset
        q == pin.args.query
        out == pout[1].result[1]
        M == {i \in 1..Len(cat) : EntryContains(cat[i], q)}
        k == Min(Cardinality(M), SEARCH_CAP)
        Nth(j) == CHOOSE i \in M : Cardinality({m \in M : m <= i}) = j
    IN /\ Len(out) = k
       /\ \A j \in 1..k : out[j] = toDatasetInfo(cat[Nth(j)])

(* A mixed-case query matched more than SEARCH_CAP entries of a catalog    *)
(* that also holds non-matching ones, and SEARCH_CAP came back.            *)
C5_Witness ==
  /\ IsDefined(pout) /\ pin.op = "searchDatasets"
  /\ pin.args.query = <<"A", "B">>
  /\ Len(pout[1].result[1]) = SEARCH_CAP
  /\ LET cat == pin.resp.body.dataset
     IN /\ Cardinality({i \in 1..Len(cat) : EntryContains(cat[i], pin.args.query)}) > SEARCH_CAP
        /\ ~EntryContains(cat[1], pin.args.query)

(* A query that matches nothing yields the empty sequence. *)
C5_WitnessEmpty ==
  /\ IsDefined(pout) /\ pin.op = "searchDatasets"
  /\ Len(pin.resp.body.dataset) > 0
  /\ pout[1].result = Some(<<>>)

(* C6: the queryData URL is ...?get=NAME,<vars>&for=<geo_for>              *)
(* [&in=<geo_in>]&key=<key> in that order, &in= present exactly when       *)
(* geo_in is supplied, after for= and before key=.                         *)
IndexOf(u, piece) ==
  IF \E i \in 1..Len(u) : u[i] = piece
  THEN CHOOSE i \in 1..Len(u) : u[i] = piece /\ \A j \in 1..(i - 1) : u[j] # piece
  ELSE 0

QueryUrlCase == IsDefined(pout) /\ pin.op = "queryData" /\ IsDefined(pout[1].url)

C6_InBeforeKey ==
  QueryUrlCase =>
    LET u == pout[1].url[1]
        a == pin.args
    IN /\ IndexOf(u, "?get=NAME,") > 0
       /\ IndexOf(u, "?get=NAME,") < IndexOf(u, "&for=")
       /\ IndexOf(u, "&for=") < IndexOf(u, "&key=")
       /\ (IndexOf(u, "&in=") > 0) <=> IsDefined(a.geo_in)
       /\ IsDefined(a.geo_in) =>
            /\ IndexOf(u, "&for=") < IndexOf(u, "&in=")
            /\ IndexOf(u, "&in=") < IndexOf(u, "&key=")

(* C6 as the code has it: the URL is                                       *)
(* BASE/<vintage>/<dataset>?get=NAME,<vars>&for=<geo_for>&key=<key>,       *)
(* followed by &in=<geo_in> exactly when geo_in is supplied and not empty. *)
C6_InAppendedAfterKey ==
  QueryUrlCase =>
    LET u == pout[1].url[1]
        a == pin.args
        head == <<BASE_URL, "/", a.vintage, "/", a.dataset, "?get=NAME,">>
                  \o joinPieces(a.variables, ",")
                  \o <<"&for=", a.geo_for, "&key=", env[1]>>
        withIn == IsDefined(a.geo_in) /\ a.geo_in[1] # ""
    IN /\ withIn => u = head \o <<"&in=", a.geo_in[1]>>
       /\ ~withIn => u = head

(* A URL with two variables and a parent geography was built. *)
C6_Witness ==
  /\ QueryUrlCase
  /\ pin.args.geo_in = Some("state:06")
  /\ Len(pin.args.variables) = 2
  /\ IndexOf(pout[1].url[1], "&in=") > IndexOf(pout[1].url[1], "&key=")

(* C7: getVariables with any supplied group requests .../groups/{group}    *)
(* .json, never .../variables.json; without a group, .../variables.json.   *)
VariablesUrlCase == IsDefined(pout) /\ pin.op = "getVariables" /\ IsDefined(pout[1].url)

GroupUrl(a, g) == <<BASE_URL, "/", a.vintage, "/", a.dataset, "/groups/", g, ".json">>
FullUrl(a) == <<BASE_URL, "/", a.vintage, "/", a.dataset, "/variables.json">>

C7_AnyGroupToGroupEndpoint ==
  VariablesUrlCase =>
    LET u == pout[1].url[1]
        a == pin.args
    IN IF IsDefined(a.group) THEN u = GroupUrl(a, a.group[1]) ELSE u = FullUrl(a)

(* C7 as the code has it: a supplied, non-empty group goes to the group    *)
(* endpoint; no group, or the empty string, goes to .../variables.json.    *)
C7_NonEmptyGroupToGroupEndpoint ==
  VariablesUrlCase =>
    LET u == pout[1].url[1]
        a == pin.args
    IN IF IsDefined(a.group) /\ a.group[1] # ""
       THEN u = GroupUrl(a, a.group[1])
       ELSE u = FullUrl(a)

(* A group was supplied and the group endpoint was requested. *)
C7_Witness ==
  /\ VariablesUrlCase
  /\ pin.args.group = Some("B01001")
  /\ pout[1].url[1][6] = "/groups/"

(* C8: an invocation issues at most one GET; a non-success status ends it  *)
(* with the error carrying status and body, no further request and no      *)
(* result; a settled invocation has a result or an error, never both, and  *)
(* an unsettled one has neither.                                           *)
C8_NoRetryNoPartial ==
  \A p \in Procs :
    LET r == proc[p]
    IN /\ r.nReq <= 1
       /\ (r.pc = "rejected" /\ r.status # 0) =>
            /\ r.err = Some(ApiError(r.status, r.body))
            /\ r.nReq = 1
       /\ r.pc = "resolved" => (IsDefined(r.result) /\ ~IsDefined(r.err) /\ r.ok)
       /\ r.pc = "rejected" => (IsDefined(r.err) /\ ~IsDefined(r.result))
       /\ r.pc \notin {"resolved", "rejected"} => (~IsDefined(r.result) /\ ~IsDefined(r.err))

(* An invocation was answered 404 and has rejected with status and body. *)
C8_Witness ==
  \E p \in Procs :
    /\ proc[p].pc = "rejected"
    /\ proc[p].status = 404
    /\ proc[p].err = Some(ApiError(404, "error: unknown variable"))

(* C9: getPopulation(params) requests and yields exactly what queryData    *)
(* does for vintage (if supplied, else "2022"), dataset (if supplied, else *)
(* "acs/acs5"), variables ["B01001_001E"], the same geo_for and geo_in and *)
(* no limit, failures included.                                            *)
EquivalentQuery(a) ==
  [vintage |-> IF IsDefined(a.vintage) THEN a.vintage[1] ELSE "2022",
   dataset |-> IF IsDefined(a.dataset) THEN a.dataset[1] ELSE "acs/acs5",
   variables |-> <<"B01001_001E">>,
   geo_for |-> a.geo_for,
   geo_in |-> a.geo_in,
   limit |-> Undefined]

C9_PopulationIsQuery ==
  (IsDefined(pout) /\ pin.op = "getPopulation") =>
    pout[1] = Handle("queryData", EquivalentQuery(pin.args), env, pin.resp)

(* getPopulation ran with one default taken and one empty string supplied. *)
C9_Witness ==
  /\ IsDefined(pout) /\ pin.op = "getPopulation"
  /\ pin.args.vintage = Some("")
  /\ ~IsDefined(pin.args.dataset)
  /\ IsDefined(pout[1].result)
  /\ pout[1].result[1].total_rows = MaxRows

(* C10: the gate's delay is one timer of at most RATE_LIMIT_MS that waits  *)
(* on no other invocation: a delayed call always reaches its fetch, and a  *)
(* call whose response has arrived always settles, whatever the other      *)
(* calls' responses do.  Checked under FairSpec.                           *)
C10_TimerBounded ==
  \A p \in Procs :
    proc[p].pc = "delay" =>
      /\ proc[p].delayMs > 0
      /\ proc[p].delayMs <= RATE_LIMIT_MS
      /\ proc[p].wake <= clock + RATE_LIMIT_MS

C10_SingleTimer ==
  \A p \in Procs : proc'[p].pc = "delay" => proc[p].pc \in {"idle", "delay"}

C10_NoHeadOfLineBlocking ==
  /\ [](C10_TimerBounded)
  /\ [][C10_SingleTimer]_vars
  /\ \A p \in Procs : (proc[p].pc = "delay") ~> (proc[p].pc = "fetch")
  /\ \A p \in Procs : (proc[p].pc \in {"text", "json"}) ~> Settled(p)

(* One call's fetch is still unanswered while a call that was delayed      *)
(* behind it has gone out and resolved.                                    *)
C10_Witness ==
  \E p, q \in Procs :
    /\ p # q
    /\ proc[q].pc = "fetch"
    /\ proc[p].pc = "resolved"
    /\ Len(gets) = 2
    /\ gets[2] - gets[1] = RATE_LIMIT_MS

====
